---------------------------- MODULE Spec2Model ----------------------------
(***************************************************************************)
(* dungeon-explorer: randomized depth-first dungeon generation over an     *)
(* insert-only rectangle index.                                            *)
(*                                                                         *)
(*   rect.rs     Rect, overlaps, is_lex_less, is_dim_less                  *)
(*   kd_tree.rs  KDTree / TreeNode, add_rect, overlaps                     *)
(*   map_gen.rs  Tile, Direction, Room, RoomPlacement, MapGenerator        *)
(*                                                                         *)
(* Points are pairs <<x, y>>; Rust's p[0], p[1] are p[1], p[2] here.       *)
(* Option<T> is a sequence of length 0 (None) or 1 (Some).                 *)
(***************************************************************************)
EXTENDS Integers, Sequences, FiniteSets, TLC

VARIABLES
    gen,        \* id -> MapGenerator {width, height, room_stack, prev_placed, rng}
    panicked,   \* id -> MapGenerator::new aborted (overflow check of a debug build)
    yielded,    \* id -> the placements MapGenerator::next has returned so far
    last,       \* id -> the Option<RoomPlacement> the latest call of next returned
    ended,      \* id -> how many calls of next have returned None
    calls,      \* id -> how many calls of next the caller has made
    tree,       \* a KDTree driven directly through add_rect / overlaps
    inserted,   \* the rectangles given to add_rect on tree, in order
    query,      \* Option<Rect>: the latest rectangle given to KDTree::overlaps
    qres,       \* what that call returned
    ra, rb,     \* two rectangles given to Rect::overlaps
    rres,       \* Option<<<a.overlaps(b), b.overlaps(a)>>>
    less,       \* Option<is_dim_less of ra and rb in one dimension, each way round>
    layout,     \* a tile grid given to Room::new
    built       \* Option<outcome of Room::new(layout)>

genVars  == <<gen, panicked, yielded, last, ended, calls>>
treeVars == <<tree, inserted, query, qres>>
rectVars == <<ra, rb, rres, less>>
roomVars == <<layout, built>>
vars     == <<gen, panicked, yielded, last, ended, calls, tree, inserted, query, qres,
              ra, rb, rres, layout, built>>

---------------------------------------------------------------------------
(* Machine integers.                                                       *)

MaxI32 == 2147483647
MinI32 == -MaxI32 - 1

\* i32 addition as a release build performs it (two's-complement wrap).
I32Add(a, b) ==
    IF b > 0 /\ a > MaxI32 - b THEN (a - MaxI32 - 1) + (b - MaxI32 - 1)
    ELSE IF b < 0 /\ a < MinI32 - b THEN (a + MaxI32 + 1) + (b + MaxI32 + 1)
    ELSE a + b

\* Whether the u32 subtraction a - b overflows.
U32SubOverflows(a, b) == a < b

\* ((a - b) / 2) as i32 on u32 operands, the subtraction wrapping modulo 2^32:
\* for a < b the difference is 2^32 - (b - a), and its half is below 2^31.
U32SubHalfAsI32(a, b) ==
    IF a >= b THEN (a - b) \div 2
    ELSE (MaxI32 - ((b - a + 1) \div 2)) + 1

---------------------------------------------------------------------------
(* rect.rs                                                                 *)

Rect(minx, miny, maxx, maxy) == [min |-> <<minx, miny>>, max |-> <<maxx, maxy>>]

\* An overlap test on closed intervals.
Rect_overlaps_closed(self, rhs) ==
    /\ self.min[1] <= rhs.max[1]
    /\ self.max[1] >= rhs.min[1]
    /\ self.min[2] <= rhs.max[2]
    /\ self.max[2] >= rhs.min[2]

\* Rect::overlaps
Rect_overlaps(self, rhs) ==
    /\ self.min[1] < rhs.max[1]
    /\ self.max[1] > rhs.min[1]
    /\ self.min[2] < rhs.max[2]
    /\ self.max[2] > rhs.min[2]

\* The pairs is_lex_less walks: min.x, min.y, max.x, max.y.
LexCoords(r) == <<r.min[1], r.min[2], r.max[1], r.max[2]>>

RECURSIVE LexLessFrom(_, _, _)
LexLessFrom(l, r, k) ==
    IF k > 4 THEN FALSE
    ELSE IF l[k] < r[k] THEN TRUE
    ELSE IF l[k] > r[k] THEN FALSE
    ELSE LexLessFrom(l, r, k + 1)

\* Rect::is_lex_less
is_lex_less(self, rhs) == LexLessFrom(LexCoords(self), LexCoords(rhs), 1)

\* The coordinate is_dim_less selects: dims 0..1 are min[dim], 2..3 max[dim-2].
DimCoord(r, dim) == IF dim <= 1 THEN r.min[dim + 1] ELSE r.max[dim - 1]

\* An is_dim_less that is false on equal coordinates, without the fall back
\* to is_lex_less.
is_dim_less_strict(self, rhs, dim) == DimCoord(self, dim) < DimCoord(rhs, dim)

\* Rect::is_dim_less
is_dim_less(self, rhs, dim) ==
    LET lhs_dim == DimCoord(self, dim)
        rhs_dim == DimCoord(rhs, dim)
    IN  IF lhs_dim < rhs_dim THEN TRUE
        ELSE IF lhs_dim > rhs_dim THEN FALSE
        ELSE is_lex_less(self, rhs)

---------------------------------------------------------------------------
(* kd_tree.rs                                                              *)

\* KDTree::Empty is <<>>, KDTree::Populated { root } is <<root>>.
KDTree_default == <<>>

\* TreeNode::new
TreeNode_new(rect) == [left |-> <<>>, right |-> <<>>, rect |-> rect]

RECURSIVE TreeNode_add_rect(_, _, _)
\* An add_rect that overwrites the child it should descend into.
TreeNode_add_rect_overwrite(self, r, curr_dim) ==
    IF is_dim_less(r, self.rect, curr_dim)
    THEN [self EXCEPT !.left = <<TreeNode_new(r)>>]
    ELSE [self EXCEPT !.right = <<TreeNode_new(r)>>]

\* An add_rect that hands its own dimension down instead of the next one.
TreeNode_add_rect_same_dim(self, r, curr_dim) ==
    IF is_dim_less(r, self.rect, curr_dim)
    THEN IF self.left = <<>>
         THEN [self EXCEPT !.left = <<TreeNode_new(r)>>]
         ELSE [self EXCEPT !.left = <<TreeNode_add_rect(self.left[1], r, curr_dim)>>]
    ELSE IF self.right = <<>>
         THEN [self EXCEPT !.right = <<TreeNode_new(r)>>]
         ELSE [self EXCEPT !.right = <<TreeNode_add_rect(self.right[1], r, curr_dim)>>]

\* TreeNode::add_rect: the node after the insertion of r below it.
TreeNode_add_rect(self, r, curr_dim) ==
    LET next_dim == (curr_dim + 1) % 4
    IN  IF is_dim_less(r, self.rect, curr_dim)
        THEN IF self.left = <<>>
             THEN [self EXCEPT !.left = <<TreeNode_new(r)>>]
             ELSE [self EXCEPT !.left = <<TreeNode_add_rect(self.left[1], r, next_dim)>>]
        ELSE IF self.right = <<>>
             THEN [self EXCEPT !.right = <<TreeNode_new(r)>>]
             ELSE [self EXCEPT !.right = <<TreeNode_add_rect(self.right[1], r, next_dim)>>]

\* KDTree::add_rect
KDTree_add_rect(self, r) ==
    IF self = <<>> THEN <<TreeNode_new(r)>>
    ELSE <<TreeNode_add_rect(self[1], r, 0)>>

RECURSIVE TreeNode_overlaps(_, _, _)
\* A query that follows the insertion path of rect alone, as a lookup in a
\* search tree would.
TreeNode_overlaps_lookup(self, rect, curr_dim) ==
    \/ Rect_overlaps(self.rect, rect)
    \/ /\ is_dim_less(rect, self.rect, curr_dim)
       /\ self.left # <<>>
       /\ TreeNode_overlaps(self.left[1], rect, (curr_dim + 1) % 4)
    \/ /\ ~is_dim_less(rect, self.rect, curr_dim)
       /\ self.right # <<>>
       /\ TreeNode_overlaps(self.right[1], rect, (curr_dim + 1) % 4)

\* A query that, in dimensions 0..1, gives up the right child when rect ends
\* before the node's rectangle ends rather than before it begins.
TreeNode_overlaps_prune_max(self, rect, curr_dim) ==
    \/ Rect_overlaps(self.rect, rect)
    \/ /\ curr_dim <= 1
       /\ self.left # <<>>
       /\ TreeNode_overlaps(self.left[1], rect, (curr_dim + 1) % 4)
    \/ /\ curr_dim <= 1
       /\ ~(rect.max[curr_dim + 1] < self.rect.max[curr_dim + 1])
       /\ self.right # <<>>
       /\ TreeNode_overlaps(self.right[1], rect, (curr_dim + 1) % 4)
    \/ /\ curr_dim >= 2
       /\ self.right # <<>>
       /\ TreeNode_overlaps(self.right[1], rect, (curr_dim + 1) % 4)
    \/ /\ curr_dim >= 2
       /\ ~(rect.min[curr_dim - 1] > self.rect.max[curr_dim - 1])
       /\ self.left # <<>>
       /\ TreeNode_overlaps(self.left[1], rect, (curr_dim + 1) % 4)

\* TreeNode::overlaps.  The branches of the match are the disjuncts, in the
\* order the code evaluates them: the node itself; for dims 0..1 the left
\* child, then the right one unless rect.max[i] < self.rect.min[i]; for dims
\* 2..3 the right child, then the left one unless rect.min[i] > self.rect.max[i].
TreeNode_overlaps(self, rect, curr_dim) ==
    \/ Rect_overlaps(self.rect, rect)
    \/ /\ curr_dim <= 1
       /\ self.left # <<>>
       /\ TreeNode_overlaps(self.left[1], rect, (curr_dim + 1) % 4)
    \/ /\ curr_dim <= 1
       /\ ~(rect.max[curr_dim + 1] < self.rect.min[curr_dim + 1])
       /\ self.right # <<>>
       /\ TreeNode_overlaps(self.right[1], rect, (curr_dim + 1) % 4)
    \/ /\ curr_dim >= 2
       /\ self.right # <<>>
       /\ TreeNode_overlaps(self.right[1], rect, (curr_dim + 1) % 4)
    \/ /\ curr_dim >= 2
       /\ ~(rect.min[curr_dim - 1] > self.rect.max[curr_dim - 1])
       /\ self.left # <<>>
       /\ TreeNode_overlaps(self.left[1], rect, (curr_dim + 1) % 4)

\* KDTree::overlaps
KDTree_overlaps(self, r) ==
    IF self = <<>> THEN FALSE ELSE TreeNode_overlaps(self[1], r, 0)

---------------------------------------------------------------------------
(* map_gen.rs: tiles, directions, rooms                                    *)

\* Tile::Empty, Tile::Dirt
E == "Empty"
D == "Dirt"

\* Tile::is_empty
Tile_is_empty(t) == t = E

\* Direction, by discriminant.
North == 0
East  == 1
South == 2
West  == 3

\* Direction::flip
flip(self) ==
    CASE self = North -> South
      [] self = East  -> West
      [] self = South -> North
      [] self = West  -> East

RECURSIVE CollectFrom(_, _)
CollectFrom(keep, i) ==
    IF i > Len(keep) THEN <<>>
    ELSE (IF keep[i] THEN <<i - 1>> ELSE <<>>) \o CollectFrom(keep, i + 1)

\* iter().enumerate().filter(..).map(|(i, _)| i as i32).collect(): the 0-based
\* indices of the elements the filter keeps, in iteration order.
EnumerateFilter(keep) == CollectFrom(keep, 1)

\* Room::new's width and height: layout[0].len() and layout.len().
LayoutWidth(lay)  == Len(lay[1])
LayoutHeight(lay) == Len(lay)

\* Whether Room::new(layout) panics: layout[0] on an empty grid, t[width - 1]
\* on a row shorter than the first (for width 0 that index is out of bounds
\* or the subtraction overflows).  No other condition is tested.
Room_new_panics(lay) ==
    \/ Len(lay) = 0
    \/ LayoutWidth(lay) = 0
    \/ \E i \in 1..Len(lay) : Len(lay[i]) < LayoutWidth(lay)

\* A Room::new whose east list is read off the first tile of each row, as the
\* west list is.
Room_new_east_first(lay) ==
    LET width  == LayoutWidth(lay)
        height == LayoutHeight(lay)
        north_entrances ==
            EnumerateFilter([i \in 1..Len(lay[1]) |-> Tile_is_empty(lay[1][i])])
        east_entrances ==
            EnumerateFilter([i \in 1..height |-> Tile_is_empty(lay[i][1])])
        south_entrances ==
            EnumerateFilter([i \in 1..Len(lay[height]) |-> Tile_is_empty(lay[height][i])])
        west_entrances ==
            EnumerateFilter([i \in 1..height |-> Tile_is_empty(lay[i][1])])
    IN  [width |-> width, height |-> height, layout |-> lay,
         entrances |-> <<north_entrances, east_entrances,
                         south_entrances, west_entrances>>]

\* Room::new, where it returns.
Room_new(lay) ==
    LET width  == LayoutWidth(lay)
        height == LayoutHeight(lay)
        north_entrances ==
            EnumerateFilter([i \in 1..Len(lay[1]) |-> Tile_is_empty(lay[1][i])])
        east_entrances ==
            EnumerateFilter([i \in 1..height |-> Tile_is_empty(lay[i][width])])
        south_entrances ==
            EnumerateFilter([i \in 1..Len(lay[height]) |-> Tile_is_empty(lay[height][i])])
        west_entrances ==
            EnumerateFilter([i \in 1..height |-> Tile_is_empty(lay[i][1])])
    IN  [width |-> width, height |-> height, layout |-> lay,
         entrances |-> <<north_entrances, east_entrances,
                         south_entrances, west_entrances>>]

\* Room::place
Room_place(self, pos) == [pos |-> pos, room |-> self]

\* The grid MapGenerator::new builds its start room from.
first_room_layout ==
    <<<<E, E, E, E, E, E, E, E, E, E>>,
      <<E, E, E, E, E, E, E, E, E, E>>,
      <<E, D, D, D, E, D, D, D, D, E>>,
      <<E, D, D, E, E, E, E, D, D, E>>,
      <<E, D, E, E, E, E, E, D, E, E>>,
      <<E, D, E, E, E, E, E, D, E, E>>,
      <<E, D, E, E, E, E, E, D, E, E>>,
      <<E, D, D, E, E, E, E, D, E, E>>,
      <<E, D, D, D, E, E, E, D, D, E>>,
      <<D, D, D, D, E, E, D, D, D, D>>>>

first_room == Room_new(first_room_layout)

\* The grids of AVAILABLE_ROOMS, in catalog order.
ROOM_LAYOUTS ==
    <<
      <<<<D, D, D>>,
        <<E, E, E>>,
        <<D, D, D>>>>,
      <<<<E, D, D>>,
        <<E, E, E>>,
        <<D, D, E>>>>,
      <<<<D, D, E>>,
        <<E, E, E>>,
        <<E, D, D>>>>,
      <<<<D, E, D>>,
        <<D, E, D>>,
        <<D, E, D>>>>,
      <<<<E, E, D>>,
        <<D, E, D>>,
        <<D, E, E>>>>,
      <<<<E, E, E, E>>,
        <<D, E, E, E>>,
        <<D, E, E, D>>,
        <<D, E, D, D>>,
        <<D, E, D, D>>,
        <<D, E, D, D>>,
        <<D, D, D, D>>>>,
      <<<<E, E, E, E, E, D, D, D>>,
        <<D, D, D, E, E, D, D, D>>,
        <<D, E, E, E, E, E, E, D>>,
        <<D, D, D, E, E, D, D, D>>>>,
      <<<<E, D, E, D, E, D, E, D, E>>,
        <<E, D, D, D, D, D, D, D, E>>,
        <<E, D, E, D, E, D, E, D, E>>>>,
      <<<<E, E, E, E, E, E, E, E>>,
        <<D, D, D, D, D, D, D, D>>,
        <<E, D, D, D, D, D, D, E>>,
        <<E, D, D, E, E, D, D, E>>>>,
      <<<<E, E, E, E, E, E, E, E, E>>,
        <<E, D, D, D, D, D, D, D, E>>,
        <<E, D, E, D, E, D, E, D, E>>,
        <<E, D, D, D, D, D, D, D, E>>,
        <<E, D, E, D, E, D, E, D, E>>,
        <<E, D, D, D, D, D, D, D, E>>>>,
      <<<<D, D, E, E, E, E, E, E, E>>,
        <<D, E, E, E, E, D, E, E, E>>,
        <<E, E, E, E, D, D, D, E, E>>,
        <<E, E, E, E, E, D, D, D, E>>,
        <<E, E, E, E, E, D, D, D, D>>,
        <<E, E, E, D, D, D, D, D, D>>>>
    >>

\* AVAILABLE_ROOMS; Rust's AVAILABLE_ROOMS[i] is AVAILABLE_ROOMS[i + 1] here.
AVAILABLE_ROOMS == [i \in 1..Len(ROOM_LAYOUTS) |-> Room_new(ROOM_LAYOUTS[i])]

\* The bounding rectangle of a placement: [pos, pos + (width, height)].
PlacementRect(p) ==
    Rect(p.pos[1], p.pos[2],
         I32Add(p.pos[1], p.room.width), I32Add(p.pos[2], p.room.height))

---------------------------------------------------------------------------
(* The randomness source.  R: Rng is injected; it is modelled as a         *)
(* generator with a small state whose seed is chosen at construction.      *)

RngModulus == 65537

\* One draw advances the state.
RngStep(s) == (s * 75 + 74) % RngModulus

\* gen_range(0..ubound): the draw and the source after it.
gen_index(rng, ubound) ==
    LET s == RngStep(rng) IN [rng |-> s, val |-> s % ubound]

Swap(seq, i, j) == [seq EXCEPT ![i] = seq[j], ![j] = seq[i]]

RECURSIVE ShuffleFrom(_, _, _)
ShuffleFrom(seq, rng, i) ==
    IF i < 1 THEN [seq |-> seq, rng |-> rng]
    ELSE LET g == gen_index(rng, i + 1)
         IN  ShuffleFrom(Swap(seq, i + 1, g.val + 1), g.rng, i - 1)

\* The calls of next made so far on all generators together.
AmbientDraws ==
    (IF 1 \in DOMAIN calls THEN calls[1] ELSE 0)
      + (IF 2 \in DOMAIN calls THEN calls[2] ELSE 0)

\* A shuffle that draws from a source shared by the whole process instead of
\* the one handed to the generator.
shuffle_ambient(seq, rng) ==
    [seq |-> ShuffleFrom(seq, RngStep(AmbientDraws), Len(seq) - 1).seq, rng |-> rng]

\* SliceRandom::shuffle: for i in (1..len).rev() { swap(i, gen_range(0..=i)) }
shuffle(seq, rng) == ShuffleFrom(seq, rng, Len(seq) - 1)

---------------------------------------------------------------------------
(* map_gen.rs: MapGenerator                                                *)

\* MapGenerator::new with the start room's corner at the middle of the screen:
\* the room's own side is left out of the subtraction.
MapGenerator_new_uncentred(width, height, rng) ==
    LET start_x == width \div 2
        start_y == height \div 2
        kd_tree == KDTree_add_rect(KDTree_default,
                       Rect(start_x, start_y,
                            I32Add(start_x, first_room.width),
                            I32Add(start_y, first_room.height)))
    IN  [width |-> width, height |-> height,
         room_stack |-> <<Room_place(first_room, <<start_x, start_y>>)>>,
         prev_placed |-> kd_tree,
         rng |-> rng]

\* MapGenerator::new, the overflow of width - first_room.width wrapping.
MapGenerator_new(width, height, rng) ==
    LET start_x == U32SubHalfAsI32(width, first_room.width)
        start_y == U32SubHalfAsI32(height, first_room.height)
        kd_tree == KDTree_add_rect(KDTree_default,
                       Rect(start_x, start_y,
                            I32Add(start_x, first_room.width),
                            I32Add(start_y, first_room.height)))
    IN  [width |-> width, height |-> height,
         room_stack |-> <<Room_place(first_room, <<start_x, start_y>>)>>,
         prev_placed |-> kd_tree,
         rng |-> rng]

\* Whether MapGenerator::new overflows on the way (a debug build panics there).
MapGenerator_new_overflows(width, height) ==
    \/ U32SubOverflows(width, first_room.width)
    \/ U32SubOverflows(height, first_room.height)

\* The margin next_placements adds to width and height.
ScreenMargin == 20

\* The screen rectangle without the margin.
screen_exact(self) == Rect(0, 0, self.width, self.height)

\* A screen rectangle with the margin on every side.
screen_around(self) ==
    Rect(-ScreenMargin, -ScreenMargin,
         I32Add(self.width, ScreenMargin), I32Add(self.height, ScreenMargin))

\* next_placements' screen rectangle.
screen(self) ==
    Rect(0, 0, I32Add(self.width, ScreenMargin), I32Add(self.height, ScreenMargin))

\* An attempt_pos whose West arm steps back by the candidate's height, as the
\* North arm does, instead of its width.
attempt_pos_west_height(curr, cardinal, exit, try_room, entrance) ==
    CASE cardinal = North ->
           <<I32Add(I32Add(curr.pos[1], exit), -entrance),
             I32Add(curr.pos[2], -try_room.height)>>
      [] cardinal = East ->
           <<I32Add(I32Add(curr.pos[1], curr.room.width), 0),
             I32Add(I32Add(curr.pos[2], exit), -entrance)>>
      [] cardinal = South ->
           <<I32Add(I32Add(curr.pos[1], exit), -entrance),
             I32Add(I32Add(curr.pos[2], curr.room.height), 0)>>
      [] cardinal = West ->
           <<I32Add(curr.pos[1], -try_room.height),
             I32Add(I32Add(curr.pos[2], exit), -entrance)>>

\* next_placements' attempt_pos for one (cardinal, exit, try_room, entrance).
attempt_pos(curr, cardinal, exit, try_room, entrance) ==
    CASE cardinal = North ->
           <<I32Add(I32Add(curr.pos[1], exit), -entrance),
             I32Add(curr.pos[2], -try_room.height)>>
      [] cardinal = East ->
           <<I32Add(I32Add(curr.pos[1], curr.room.width), 0),
             I32Add(I32Add(curr.pos[2], exit), -entrance)>>
      [] cardinal = South ->
           <<I32Add(I32Add(curr.pos[1], exit), -entrance),
             I32Add(I32Add(curr.pos[2], curr.room.height), 0)>>
      [] cardinal = West ->
           <<I32Add(curr.pos[1], -try_room.width),
             I32Add(I32Add(curr.pos[2], exit), -entrance)>>

\* The rectangle r next_placements builds at attempt_pos.
attempt_rect(pos, try_room) ==
    Rect(pos[1], pos[2], I32Add(pos[1], try_room.width), I32Add(pos[2], try_room.height))

\* The test of line 269.
accepts(self, r) ==
    ~KDTree_overlaps(self.prev_placed, r) /\ Rect_overlaps(screen(self), r)

\* The accepting branch without its add_rect: the room is pushed, the index
\* never learns of it.
accept_unindexed(self, r, placement) ==
    [self EXCEPT !.room_stack = Append(self.room_stack, placement)]

\* An accepting branch that queues the room behind the pending ones instead
\* of pushing it on top of them.
accept_enqueue(self, r, placement) ==
    [self EXCEPT !.prev_placed = KDTree_add_rect(self.prev_placed, r),
                 !.room_stack = <<placement>> \o self.room_stack]

\* The body of the accepting branch: add_rect and push.
accept(self, r, placement) ==
    [self EXCEPT !.prev_placed = KDTree_add_rect(self.prev_placed, r),
                 !.room_stack = Append(self.room_stack, placement)]

RECURSIVE for_entrance_every(_, _, _, _, _, _)
\* An entrance loop that runs to its end: it tests each entrance against the
\* index as the loop found it and adds every one that passes.
for_entrance_every(self, curr, cardinal, exit, try_room, k) ==
    IF k > Len(try_room.entrances[flip(cardinal) + 1])
    THEN [accepted |-> FALSE, self |-> self]
    ELSE LET pos  == attempt_pos(curr, cardinal, exit, try_room,
                                 try_room.entrances[flip(cardinal) + 1][k])
             r    == attempt_rect(pos, try_room)
             rest == for_entrance_every(self, curr, cardinal, exit, try_room, k + 1)
         IN  IF accepts(self, r)
             THEN [accepted |-> TRUE,
                   self |-> accept(rest.self, r, Room_place(try_room, pos))]
             ELSE rest

RECURSIVE for_entrance_rev(_, _, _, _, _, _)
\* An entrance loop over .iter().rev(): the stored order from its end.
for_entrance_rev(self, curr, cardinal, exit, try_room, k) ==
    IF k > Len(try_room.entrances[flip(cardinal) + 1])
    THEN [accepted |-> FALSE, self |-> self]
    ELSE LET es  == try_room.entrances[flip(cardinal) + 1]
             pos == attempt_pos(curr, cardinal, exit, try_room, es[Len(es) - k + 1])
             r   == attempt_rect(pos, try_room)
         IN  IF accepts(self, r)
             THEN [accepted |-> TRUE,
                   self |-> accept(self, r, Room_place(try_room, pos))]
             ELSE for_entrance_rev(self, curr, cardinal, exit, try_room, k + 1)

RECURSIVE for_entrance(_, _, _, _, _, _)
\* for entrance in &try_room.entrances[cardinal.flip()], from the k-th on
\* (lines 245-275): the first entrance accepted is added and pushed.
for_entrance(self, curr, cardinal, exit, try_room, k) ==
    IF k > Len(try_room.entrances[flip(cardinal) + 1])
    THEN [accepted |-> FALSE, self |-> self]
    ELSE LET pos == attempt_pos(curr, cardinal, exit, try_room,
                                try_room.entrances[flip(cardinal) + 1][k])
             r   == attempt_rect(pos, try_room)
         IN  IF accepts(self, r)
             THEN [accepted |-> TRUE,
                   self |-> accept(self, r, Room_place(try_room, pos))]
             ELSE for_entrance(self, curr, cardinal, exit, try_room, k + 1)

RECURSIVE for_index(_, _, _, _, _, _)
\* for i in &indices, from the j-th on (lines 242-276); the first acceptance
\* ends the loop (continue 'next_exit).
for_index(self, curr, cardinal, exit, indices, j) ==
    IF j > Len(indices) THEN [accepted |-> FALSE, self |-> self]
    ELSE LET t == for_entrance(self, curr, cardinal, exit,
                               AVAILABLE_ROOMS[indices[j] + 1], 1)
         IN  IF t.accepted THEN t
             ELSE for_index(self, curr, cardinal, exit, indices, j + 1)

\* e, with v evaluated before it: the loops below finish one iteration before
\* they enter the next.
Eager(v, e) == IF v = v THEN e ELSE e

RECURSIVE for_exit(_, _, _, _, _, _)
\* 'next_exit: for exit in exits, from the n-th on.  indices is shuffled in
\* place before each exit, so each exit starts from the previous order.
for_exit(self, curr, cardinal, exits, indices, n) ==
    IF n > Len(exits) THEN [self |-> self, indices |-> indices]
    ELSE LET sh == shuffle(indices, self.rng)
             t  == for_index([self EXCEPT !.rng = sh.rng], curr, cardinal,
                             exits[n], sh.seq, 1)
         IN  Eager(t, for_exit(t.self, curr, cardinal, exits, sh.seq, n + 1))

RECURSIVE for_cardinal(_, _, _, _, _)
\* for cardinal in &cardinals, from the c-th on.
for_cardinal(self, curr, cardinals, indices, c) ==
    IF c > Len(cardinals) THEN self
    ELSE LET sh == shuffle(curr.room.entrances[cardinals[c] + 1], self.rng)
             t  == for_exit([self EXCEPT !.rng = sh.rng], curr, cardinals[c],
                            sh.seq, indices, 1)
         IN  Eager(t, for_cardinal(t.self, curr, cardinals, t.indices, c + 1))

\* A next_placements that puts curr back on the stack for another visit.
next_placements_requeue(self, curr) ==
    [self EXCEPT !.room_stack = Append(self.room_stack, curr)]

\* MapGenerator::next_placements: the generator after growing from curr.
next_placements(self, curr) ==
    LET indices == [i \in 1..Len(AVAILABLE_ROOMS) |-> i - 1]
        sh      == shuffle(<<North, East, South, West>>, self.rng)
    IN  for_cardinal([self EXCEPT !.rng = sh.rng], curr, sh.seq, indices, 1)

\* Vec::pop on room_stack: the top is the last element.
stack_top(stack)  == stack[Len(stack)]
stack_rest(stack) == SubSeq(stack, 1, Len(stack) - 1)

\* A next that starts the search over when the stack is empty, as main's
\* restart option does around it.
MapGenerator_next_restart(self) ==
    IF self.room_stack = <<>>
    THEN [self |-> MapGenerator_new(self.width, self.height, self.rng), item |-> <<>>]
    ELSE LET curr_room == stack_top(self.room_stack)
             popped    == [self EXCEPT !.room_stack = stack_rest(self.room_stack)]
         IN  [self |-> next_placements(popped, curr_room), item |-> <<curr_room>>]

\* A next that reads the top of the stack without popping it.
MapGenerator_next_peek(self) ==
    IF self.room_stack = <<>> THEN [self |-> self, item |-> <<>>]
    ELSE LET curr_room == stack_top(self.room_stack)
         IN  [self |-> next_placements(self, curr_room), item |-> <<curr_room>>]

\* Iterator::next for MapGenerator: the generator after the call and the item.
MapGenerator_next(self) ==
    IF self.room_stack = <<>> THEN [self |-> self, item |-> <<>>]
    ELSE LET curr_room == stack_top(self.room_stack)
             popped    == [self EXCEPT !.room_stack = stack_rest(self.room_stack)]
         IN  [self |-> next_placements(popped, curr_room), item |-> <<curr_room>>]

---------------------------------------------------------------------------
(* Bounds of the model.                                                    *)

\* Seeds of the randomness source: 1..NumSeeds.
NumSeeds == 2
\* Screen sides: SmallDim (below the start room's side, where the subtraction
\* of MapGenerator::new overflows), the start room's side itself, and MaxDim.
SmallDim == 4
MaxDim == 13
\* Calls of next that are followed after the generator is exhausted.
MaxEndCalls == 2
\* Placements a caller takes from one generator before it stops calling.
MaxYield == 100

Seeds == 1..NumSeeds
Dims  == {SmallDim, first_room.width, MaxDim}

---------------------------------------------------------------------------
(* One generator, stepped by its caller (main.rs, line 82).                *)

IdleGen ==
    /\ gen = <<>> /\ panicked = <<>> /\ yielded = <<>>
    /\ last = <<>> /\ ended = <<>> /\ calls = <<>>
IdleTree == tree = KDTree_default /\ inserted = <<>> /\ query = <<>> /\ qres = FALSE
IdleRect ==
    ra = Rect(0, 0, 0, 0) /\ rb = Rect(0, 0, 0, 0) /\ rres = <<>> /\ less = <<>>
IdleRoom == layout = <<>> /\ built = <<>>

\* The state after MapGenerator::new(w, h, seed) for each id in ids; where the
\* subtraction overflows the build decides between a panic and a wrap.
Construct(ids, w, h, seed) ==
    /\ \/ /\ gen = [i \in ids |-> MapGenerator_new(w, h, seed)]
          /\ panicked = [i \in ids |-> FALSE]
       \/ /\ MapGenerator_new_overflows(w, h)
          /\ gen = [i \in ids |-> [width |-> w, height |-> h, room_stack |-> <<>>,
                                   prev_placed |-> KDTree_default, rng |-> seed]]
          /\ panicked = [i \in ids |-> TRUE]
    /\ yielded = [i \in ids |-> <<>>]
    /\ last = [i \in ids |-> <<>>]
    /\ ended = [i \in ids |-> 0]
    /\ calls = [i \in ids |-> 0]

Init ==
    /\ \E w \in Dims, h \in Dims, seed \in Seeds : Construct({1}, w, h, seed)
    /\ IdleTree /\ IdleRect /\ IdleRoom

\* The caller makes one more call of next on generator i: it has a generator,
\* and has neither seen MaxEndCalls ends nor taken MaxYield placements.
Call(i) ==
    /\ ~panicked[i]
    /\ ended[i] < MaxEndCalls
    /\ Len(yielded[i]) < MaxYield
    /\ calls' = [calls EXCEPT ![i] = calls[i] + 1]

Calls == \E i \in DOMAIN gen : Call(i)

\* map_gen.next() on generator i.
Step(i) ==
    /\ Call(i)
    /\ LET res == MapGenerator_next(gen[i])
       IN  /\ gen' = [gen EXCEPT ![i] = res.self]
           /\ last' = [last EXCEPT ![i] = res.item]
           /\ yielded' = [yielded EXCEPT ![i] = yielded[i] \o res.item]
           /\ ended' = [ended EXCEPT ![i] = IF res.item = <<>> THEN ended[i] + 1
                                            ELSE ended[i]]
    /\ UNCHANGED <<panicked, treeVars, rectVars, roomVars>>

Next == \E i \in DOMAIN gen : Step(i)

Spec == Init /\ [][Next]_vars

\* The caller keeps calling next while it has calls left: main's loop calls it
\* once per frame.
SpecLive == Init /\ [][Next]_vars /\ WF_calls(Calls)

---------------------------------------------------------------------------
(* Two generators built alike and stepped side by side.                    *)

DetInit ==
    /\ \E d \in {SmallDim, MaxDim}, seed \in Seeds : Construct({1, 2}, d, d, seed)
    /\ IdleTree /\ IdleRect /\ IdleRoom

\* The two runs advance round by round, in either order within a round.
DetNext ==
    \E i \in DOMAIN gen :
        /\ \A j \in DOMAIN gen : calls[i] <= calls[j]
        /\ Step(i)

SpecDet == DetInit /\ [][DetNext]_vars

---------------------------------------------------------------------------
(* A KDTree driven directly: add_rect and overlaps in any order.           *)

\* Most rectangles a tree is given.
MaxRects == 5

\* The rectangles of tests::tree_overlap, two more down the same diagonal and
\* one that overlaps three of them.
InsertRects ==
    {Rect(0, 0, 10, 10), Rect(10, 10, 20, 20), Rect(20, 20, 30, 30),
     Rect(30, 30, 40, 40), Rect(40, 40, 50, 50), Rect(5, 5, 25, 25)}

\* The queries of tests::tree_overlap and two off the diagonal.
QueryRects ==
    {Rect(5, 5, 10, 10), Rect(30, 30, 40, 40), Rect(25, 25, 40, 40),
     Rect(0, 10, 10, 20), Rect(45, 0, 50, 45)}

TreeInit ==
    /\ tree = KDTree_default /\ inserted = <<>> /\ query = <<>> /\ qres = FALSE
    /\ IdleGen /\ IdleRect /\ IdleRoom

\* tree.add_rect(r)
AddRect(r) ==
    /\ Len(inserted) < MaxRects
    /\ tree' = KDTree_add_rect(tree, r)
    /\ inserted' = Append(inserted, r)
    /\ query' = <<>>
    /\ qres' = FALSE
    /\ UNCHANGED <<genVars, rectVars, roomVars>>

\* tree.overlaps(&q)
Overlaps(q) ==
    /\ query' = <<q>>
    /\ qres' = KDTree_overlaps(tree, q)
    /\ UNCHANGED <<tree, inserted, genVars, rectVars, roomVars>>

TreeNext ==
    \/ \E r \in InsertRects : AddRect(r)
    \/ \E q \in QueryRects : Overlaps(q)

SpecTree == TreeInit /\ [][TreeNext]_vars

---------------------------------------------------------------------------
(* A KDTree given rectangles that overlap one another.                     *)

\* Rectangles a caller without the generator's discipline inserts: one
\* overlapping another, one containing others, two sharing an edge and a
\* min.x, one without area, and any of them more than once.
AnyRects ==
    {Rect(0, 0, 10, 10), Rect(5, 5, 25, 25), Rect(0, 0, 30, 30),
     Rect(10, 10, 20, 20), Rect(10, 0, 20, 10), Rect(5, 5, 5, 5),
     Rect(20, 5, 30, 15)}

\* The queries such a caller makes.
AnyQueries == {Rect(25, 25, 40, 40), Rect(6, 12, 8, 14), Rect(30, 0, 40, 10)}

TreeAnyNext ==
    \/ \E r \in AnyRects : AddRect(r)
    \/ \E q \in AnyQueries : Overlaps(q)

SpecTreeAny == TreeInit /\ [][TreeAnyNext]_vars

---------------------------------------------------------------------------
(* Rect::overlaps on two rectangles.                                       *)

\* Largest coordinate of the small rectangles.
RectMax == 2

\* Every pair of corners on the grid 0..RectMax, and the rectangles of
\* tests::rect_overlap.
RectUniverse ==
    {Rect(a, b, c, d) : a, b, c, d \in 0..RectMax}
      \cup {Rect(0, 0, 10, 10), Rect(10, 10, 20, 20), Rect(5, 5, 10, 10)}

RectInit ==
    /\ ra \in RectUniverse /\ rb \in RectUniverse /\ rres = <<>> /\ less = <<>>
    /\ IdleGen /\ IdleTree /\ IdleRoom

\* ra.overlaps(&rb) and rb.overlaps(&ra)
Compare ==
    /\ rres = <<>>
    /\ rres' = <<<<Rect_overlaps(ra, rb), Rect_overlaps(rb, ra)>>>>
    /\ UNCHANGED <<ra, rb, less, genVars, treeVars, roomVars>>

RectNext == Compare

SpecRect == RectInit /\ [][RectNext]_vars

---------------------------------------------------------------------------
(* Rect::is_dim_less on two rectangles.                                    *)

\* The dimensions is_dim_less accepts.
Dimensions == 0..3

\* ra.is_dim_less(&rb, dim), rb.is_dim_less(&ra, dim) and
\* ra.is_dim_less(&ra, dim)
DimLess(dim) ==
    /\ less = <<>>
    /\ less' = <<[dim |-> dim,
                  ab |-> is_dim_less(ra, rb, dim),
                  ba |-> is_dim_less(rb, ra, dim),
                  aa |-> is_dim_less(ra, ra, dim)]>>
    /\ UNCHANGED <<ra, rb, rres, genVars, treeVars, roomVars>>

OrderNext == \E dim \in Dimensions : DimLess(dim)

SpecOrder == RectInit /\ [][OrderNext]_vars

---------------------------------------------------------------------------
(* Room::new on a tile grid.                                               *)

\* Most rows of a grid and most tiles of a row.
MaxRows == 2
MaxCols == 2

TileRows == UNION {[1..n -> {E, D}] : n \in 0..MaxCols}
Layouts  == UNION {[1..n -> TileRows] : n \in 0..MaxRows}

RoomInit ==
    /\ layout \in Layouts /\ built = <<>>
    /\ IdleGen /\ IdleTree /\ IdleRect

\* Room::new(layout): the room, or the panic of an index out of bounds.
Build ==
    /\ built = <<>>
    /\ built' = <<IF Room_new_panics(layout) THEN [kind |-> "Panic"]
                  ELSE [kind |-> "Room", room |-> Room_new(layout)]>>
    /\ UNCHANGED <<layout, genVars, treeVars, rectVars>>

RoomNext == Build

SpecRoom == RoomInit /\ [][RoomNext]_vars

---------------------------------------------------------------------------
(* Observers of a generator and of its index.                              *)

RECURSIVE NodeEntries(_, _)
\* The nodes below and including node, each as <<path from the root, rect>>;
\* a path is the sequence of turns taken, 0 for left and 1 for right.
NodeEntries(node, path) ==
    {<<path, node.rect>>}
      \cup (IF node.left = <<>> THEN {}
            ELSE NodeEntries(node.left[1], Append(path, 0)))
      \cup (IF node.right = <<>> THEN {}
            ELSE NodeEntries(node.right[1], Append(path, 1)))

\* The nodes of a tree, the empty tree having none.
TreeEntries(t) == IF t = <<>> THEN {} ELSE NodeEntries(t[1], <<>>)

\* The rectangles a tree stores.
TreeRects(t) == {e[2] : e \in TreeEntries(t)}

\* The linear scan the index stands in for.
ScanOverlaps(rects, r) == \E s \in rects : Rect_overlaps(s, r)

\* The placements generator i has yielded so far, as rectangles.
YieldedRects(i) == [k \in 1..Len(yielded[i]) |-> PlacementRect(yielded[i][k])]

---------------------------------------------------------------------------
(* C1: no two placements a generator yields over its life overlap: the     *)
(* bounding rectangles [pos, pos + (room.width, room.height)] of any two   *)
(* distinct yielded placements fail Rect::overlaps.                        *)
C1_NoOverlap ==
    \A i \in DOMAIN gen :
        \A a, b \in 1..Len(yielded[i]) :
            a # b => ~Rect_overlaps(YieldedRects(i)[a], YieldedRects(i)[b])

\* A run that has yielded rooms grown from rooms other than the start room.
C1_Witness ==
    \E i \in DOMAIN gen : Len(yielded[i]) >= 12 /\ gen[i].room_stack = <<>>

---------------------------------------------------------------------------
(* C7: a freshly constructed generator holds exactly one pending           *)
(* placement, the start template anchored at ((width - start.width) / 2,   *)
(* (height - start.height) / 2) in the unsigned arithmetic of the code;    *)
(* its index holds exactly that placement's rectangle; and the first       *)
(* placement a generator yields is the start template at that anchor.      *)

\* v is (extent - side) / 2 computed on 32-bit unsigned operands and read as
\* an i32.  Where extent < side the difference is taken modulo 2^32, so v is
\* 2^31 above the (downward rounded) half of the negative difference.
Centred(v, extent, side) ==
    IF extent >= side THEN v = (extent - side) \div 2
    ELSE v > 0 /\ (v - MaxI32) - 1 = (extent - side) \div 2

\* p is the start template at the centred anchor of generator g.
IsStart(p, g) ==
    /\ p.room.layout = first_room_layout
    /\ p.room.width = 10 /\ p.room.height = 10
    /\ Centred(p.pos[1], g.width, 10)
    /\ Centred(p.pos[2], g.height, 10)

---------------------------------------------------------------------------
(* C5: exhaustion is terminal.  A call of next on a generator whose stack  *)
(* is empty reports the end of the sequence and changes neither the stack, *)
(* the index nor the bounds, so every later call reports the end too; a    *)
(* call on a generator whose stack is not empty yields a placement, the    *)
(* one on top of the stack.                                                *)
C5_ExhaustedIsTerminal ==
    [][\A i \in DOMAIN gen :
         (<<gen[i], last[i], yielded[i], ended[i]>>'
             # <<gen[i], last[i], yielded[i], ended[i]>>) =>
           IF gen[i].room_stack = <<>>
           THEN /\ last'[i] = <<>>
                /\ ended'[i] = ended[i] + 1
                /\ yielded'[i] = yielded[i]
                /\ gen'[i].room_stack = <<>>
                /\ gen'[i].prev_placed = gen[i].prev_placed
                /\ gen'[i].width = gen[i].width
                /\ gen'[i].height = gen[i].height
           ELSE /\ last'[i] = <<gen[i].room_stack[Len(gen[i].room_stack)]>>
                /\ yielded'[i] = Append(yielded[i],
                                        gen[i].room_stack[Len(gen[i].room_stack)])
                /\ ended'[i] = ended[i]
      ]_vars

\* A generator that yielded rooms, ran dry and was then called twice.
C5_Witness ==
    \E i \in DOMAIN gen :
        ended[i] = 2 /\ Len(yielded[i]) >= 12 /\ gen[i].room_stack = <<>>

---------------------------------------------------------------------------
(* C4: termination.  Called again and again, next reaches the end of the   *)
(* sequence after finitely many calls: the stack empties.                  *)
C4_Termination ==
    <>(\A i \in DOMAIN gen :
          panicked[i] \/ (ended[i] >= 1 /\ gen[i].room_stack = <<>>))

\* A generator that reported the end after a run of yields.
C4_Witness ==
    \E i \in DOMAIN gen : ended[i] = 1 /\ Len(yielded[i]) >= 20

---------------------------------------------------------------------------
(* C3: acceptance.  A candidate rectangle is accepted iff (a) no           *)
(* rectangle in the index overlaps it and (b) it passes the bounds test    *)
(* against the region [(0, 0), (width + 20, height + 20)].                 *)

\* The rectangles next_placements can try when it grows from curr: one for
\* each side, exit of curr on that side, catalog room and entrance of that
\* room on the facing side.
CandidateRects(curr) ==
    UNION {UNION {UNION {
        {attempt_rect(attempt_pos(curr, c, curr.room.entrances[c + 1][x],
                                  AVAILABLE_ROOMS[j],
                                  AVAILABLE_ROOMS[j].entrances[flip(c) + 1][e]),
                      AVAILABLE_ROOMS[j])
           : e \in 1..Len(AVAILABLE_ROOMS[j].entrances[flip(c) + 1])}
        : j \in 1..Len(AVAILABLE_ROOMS)}
        : x \in 1..Len(curr.room.entrances[c + 1])}
        : c \in {North, East, South, West}}

\* The region of the bounds test.
Region(g) == Rect(0, 0, g.width + 20, g.height + 20)

\* r lies within outer.
Within(outer, r) ==
    /\ outer.min[1] <= r.min[1] /\ r.max[1] <= outer.max[1]
    /\ outer.min[2] <= r.min[2] /\ r.max[2] <= outer.max[2]

\* The placements generator i has accepted: all it has yielded or holds on
\* its stack but the first, which is the start placement.
Accepted(i) ==
    LET all == yielded[i] \o gen[i].room_stack IN SubSeq(all, 2, Len(all))

\* Generator i as next sees it when it calls next_placements: the top popped.
Popped(i) ==
    [gen[i] EXCEPT !.room_stack = SubSeq(gen[i].room_stack, 1,
                                         Len(gen[i].room_stack) - 1)]

\* C3 as stated: the bounds test is containment, so every accepted rectangle
\* lies within the region.  Only generators on a screen no smaller than the
\* start room are considered, where no coordinate wraps.
C3_AcceptIffWithin ==
    \A i \in DOMAIN gen :
        (gen[i].width >= 10 /\ gen[i].height >= 10) =>
          /\ gen[i].room_stack # <<>> =>
                \A r \in CandidateRects(gen[i].room_stack[Len(gen[i].room_stack)]) :
                    accepts(Popped(i), r)
                      <=> /\ ~ScanOverlaps(TreeRects(gen[i].prev_placed), r)
                          /\ Within(Region(gen[i]), r)
          /\ \A k \in 1..Len(Accepted(i)) :
                Within(Region(gen[i]), PlacementRect(Accepted(i)[k]))

\* C3, with the bounds test the code makes: a candidate is accepted iff no
\* rectangle in the index overlaps it and it overlaps the region; so every
\* accepted rectangle overlaps the region, and may reach beyond it.
C3_AcceptIffOverlapsRegion ==
    \A i \in DOMAIN gen :
        /\ gen[i].room_stack # <<>> =>
              \A r \in CandidateRects(gen[i].room_stack[Len(gen[i].room_stack)]) :
                  accepts(Popped(i), r)
                    <=> /\ ~ScanOverlaps(TreeRects(gen[i].prev_placed), r)
                        /\ Rect_overlaps(Region(gen[i]), r)
        /\ \A k \in 1..Len(Accepted(i)) :
              Rect_overlaps(Region(gen[i]), PlacementRect(Accepted(i)[k]))

\* A generator has accepted a room that reaches beyond the region, and is
\* about to grow from a room one of whose candidates the index rejects.
C3_Witness ==
    \E i \in DOMAIN gen :
        /\ \E k \in 1..Len(Accepted(i)) :
              ~Within(Region(gen[i]), PlacementRect(Accepted(i)[k]))
        /\ gen[i].room_stack # <<>>
        /\ \E r \in CandidateRects(gen[i].room_stack[Len(gen[i].room_stack)]) :
              /\ Rect_overlaps(Region(gen[i]), r)
              /\ ~accepts(Popped(i), r)

---------------------------------------------------------------------------
(* C2: index correctness.  After any sequence of pairwise non-overlapping  *)
(* rectangles given to add_rect, the empty one included, overlaps(q) is    *)
(* true exactly when a linear scan finds an inserted rectangle that        *)
(* overlaps q; after [(0,0),(10,10)], [(10,10),(20,20)], [(20,20),(30,30)] *)
(* the queries [(5,5),(10,10)], [(30,30),(40,40)], [(25,25),(40,40)] give  *)
(* true, false, true.                                                      *)

PairwiseDisjoint(seq) ==
    \A a, b \in 1..Len(seq) : a # b => ~Rect_overlaps(seq[a], seq[b])

\* The linear scan over the rectangles inserted so far.
Scan(q) == \E k \in 1..Len(inserted) : Rect_overlaps(inserted[k], q)

\* C2: on pairwise non-overlapping insertions the tree answers every query as
\* the linear scan does, the recorded call and the test's example included.
C2_IndexMatchesScan ==
    PairwiseDisjoint(inserted) =>
      /\ \A q \in QueryRects \cup InsertRects : KDTree_overlaps(tree, q) <=> Scan(q)
      /\ query # <<>> => (qres <=> Scan(query[1]))
      /\ inserted = <<Rect(0, 0, 10, 10), Rect(10, 10, 20, 20), Rect(20, 20, 30, 30)>> =>
            /\ KDTree_overlaps(tree, Rect(5, 5, 10, 10))
            /\ ~KDTree_overlaps(tree, Rect(30, 30, 40, 40))
            /\ KDTree_overlaps(tree, Rect(25, 25, 40, 40))

\* MaxRects pairwise non-overlapping rectangles are in the tree, so a node
\* of every splitting dimension has a child, and a query has hit.
C2_Witness ==
    /\ Len(inserted) = MaxRects
    /\ PairwiseDisjoint(inserted)
    /\ query # <<>> /\ qres

---------------------------------------------------------------------------
(* C8: the index is insert-only.  Each add_rect adds exactly one node and  *)
(* leaves every existing node's rectangle and position as they were, so    *)
(* every rectangle inserted is still stored, and a query that overlaps     *)
(* answered with true is answered with true after the insertion.           *)
C8_InsertOnly ==
    [][inserted' # inserted =>
         /\ TreeEntries(tree) \subseteq TreeEntries(tree')
         /\ Cardinality(TreeEntries(tree')) = Cardinality(TreeEntries(tree)) + 1
         /\ \A k \in 1..Len(inserted') : inserted'[k] \in TreeRects(tree')
         /\ \A q \in QueryRects \cup InsertRects :
               KDTree_overlaps(tree, q) => KDTree_overlaps(tree', q)
      ]_vars

\* A full tree that holds a rectangle twice and still answers with true for
\* a query that only its first rectangle overlaps.
C8_Witness ==
    /\ Len(inserted) = MaxRects
    /\ \E a, b \in 1..Len(inserted) : a # b /\ inserted[a] = inserted[b]
    /\ \E q \in QueryRects :
          /\ KDTree_overlaps(tree, q)
          /\ \A k \in 2..Len(inserted) : ~Rect_overlaps(inserted[k], q)

---------------------------------------------------------------------------
(* C9: Rect::overlaps is symmetric and an open-interval test: rectangles   *)
(* that only share a boundary coordinate do not overlap, [(0,0),(10,10)]   *)
(* and [(10,10),(20,20)] among them, while [(0,0),(10,10)] and             *)
(* [(5,5),(10,10)] do.                                                     *)

\* min < max on both axes.
Proper(r) == r.min[1] < r.max[1] /\ r.min[2] < r.max[2]

\* The larger and the smaller of two numbers.
Larger(a, b)  == IF a >= b THEN a ELSE b
Smaller(a, b) == IF a <= b THEN a ELSE b

\* The open intervals of a and b meet on axis d.
OpenMeet(a, b, d) == Larger(a.min[d], b.min[d]) < Smaller(a.max[d], b.max[d])

\* a ends where b begins, or b ends where a begins, on some axis.
SharesBoundary(a, b) ==
    \E d \in 1..2 : a.max[d] = b.min[d] \/ b.max[d] = a.min[d]

\* C9: both orders of the comparison agree, a shared boundary coordinate
\* rules an overlap out, proper rectangles overlap exactly when their open
\* intervals meet on both axes, and the two examples come out as stated.
C9_OverlapsSymmetricOpen ==
    rres # <<>> =>
      /\ rres[1][1] = rres[1][2]
      /\ SharesBoundary(ra, rb) => ~rres[1][1]
      /\ (Proper(ra) /\ Proper(rb)) =>
            (rres[1][1] <=> (OpenMeet(ra, rb, 1) /\ OpenMeet(ra, rb, 2)))
      /\ (ra = Rect(0, 0, 10, 10) /\ rb = Rect(10, 10, 20, 20)) => ~rres[1][1]
      /\ (ra = Rect(0, 0, 10, 10) /\ rb = Rect(5, 5, 10, 10)) => rres[1][1]

\* The two rectangles of the test that touch at a corner have been compared.
C9_Witness ==
    /\ rres # <<>>
    /\ ra = Rect(10, 10, 20, 20) /\ rb = Rect(0, 0, 10, 10)
    /\ rres[1] = <<FALSE, FALSE>>

---------------------------------------------------------------------------
(* C10: Room::new on a malformed tile grid (rows of unequal length, zero   *)
(* width or zero height) fails at construction rather than producing a     *)
(* template.                                                               *)

Malformed(lay) ==
    \/ Len(lay) = 0
    \/ Len(lay[1]) = 0
    \/ \E k \in 1..Len(lay) : Len(lay[k]) # Len(lay[1])

\* C10: Room::new does not produce a room from a malformed grid.
C10_MalformedRejected ==
    (built # <<>> /\ Malformed(layout)) => built[1].kind # "Room"

---------------------------------------------------------------------------
---------------------------------------------------------------------------
(* C11: a degenerate rectangle (min.x > max.x or min.y > max.y) is         *)
(* rejected when it is constructed, so none reaches Rect::overlaps.        *)

Degenerate(r) == r.min[1] > r.max[1] \/ r.min[2] > r.max[2]

\* C11: neither rectangle of a comparison that Rect::overlaps has made is
\* degenerate.
C11_NoDegenerateCompared ==
    rres # <<>> => (~Degenerate(ra) /\ ~Degenerate(rb))

---------------------------------------------------------------------------
(* C12: every candidate tried for side d and exit offset e of curr, with   *)
(* doorway offset o on the candidate's opposite side, lies directly        *)
(* against curr on side d (North: cand.max.y = curr.min.y; South:          *)
(* cand.min.y = curr.max.y; East: cand.min.x = curr.max.x; West:           *)
(* cand.max.x = curr.min.x), its anchor along the wall is                  *)
(* curr_anchor + e - o, and its doorway cell faces curr's exit cell.       *)

\* The side facing d.
Opposite(d) == (d + 2) % 4

\* a + b.  Where a is so large that the sum may leave the i32 range (the
\* coordinates of a generator whose start anchor wrapped) the sum is the one
\* the release build computes, modulo 2^32.
Plus(a, b) ==
    IF a > -(MaxI32 \div 2) /\ a < MaxI32 \div 2 THEN a + b ELSE I32Add(a, b)

\* The tile of room at column col, row row, counted from 0.
TileAt(room, col, row) == room.layout[row + 1][col + 1]

\* cand, a placement of room at pos, is aligned with exit e on side d of curr
\* through its doorway o.
Aligned(curr, d, e, room, o, pos) ==
    LET cr   == PlacementRect(curr)
        cand == PlacementRect(Room_place(room, pos))
    IN  /\ cand.min = pos
        /\ cand.max = <<Plus(pos[1], room.width), Plus(pos[2], room.height)>>
        /\ ~Rect_overlaps(cand, cr) /\ ~Rect_overlaps(cr, cand)
        /\ d = North =>
              /\ cand.max[2] = cr.min[2]
              /\ pos[1] = Plus(Plus(curr.pos[1], e), -o)
              /\ Tile_is_empty(TileAt(curr.room, e, 0))
              /\ Tile_is_empty(TileAt(room, o, room.height - 1))
        /\ d = South =>
              /\ cand.min[2] = cr.max[2]
              /\ pos[1] = Plus(Plus(curr.pos[1], e), -o)
              /\ Tile_is_empty(TileAt(curr.room, e, curr.room.height - 1))
              /\ Tile_is_empty(TileAt(room, o, 0))
        /\ d = East =>
              /\ cand.min[1] = cr.max[1]
              /\ pos[2] = Plus(Plus(curr.pos[2], e), -o)
              /\ Tile_is_empty(TileAt(curr.room, curr.room.width - 1, e))
              /\ Tile_is_empty(TileAt(room, 0, o))
        /\ d = West =>
              /\ cand.max[1] = cr.min[1]
              /\ pos[2] = Plus(Plus(curr.pos[2], e), -o)
              /\ Tile_is_empty(TileAt(curr.room, 0, e))
              /\ Tile_is_empty(TileAt(room, room.width - 1, o))

\* The exit offsets of room on side d.
Exits(room, d) == {room.entrances[d + 1][k] : k \in 1..Len(room.entrances[d + 1])}

\* C12: for the placement next is about to grow from, every side d, exit e
\* on it, catalog room and doorway o on the room's opposite side, the
\* position next_placements computes is aligned with the exit.
C12_Alignment ==
    \A i \in DOMAIN gen :
        gen[i].room_stack # <<>> =>
            LET curr == stack_top(gen[i].room_stack)
            IN  \A d \in {North, East, South, West} :
                  \A e \in Exits(curr.room, d) :
                    \A j \in 1..Len(AVAILABLE_ROOMS) :
                      \A o \in Exits(AVAILABLE_ROOMS[j], Opposite(d)) :
                        Aligned(curr, d, e, AVAILABLE_ROOMS[j], o,
                                attempt_pos(curr, d, e, AVAILABLE_ROOMS[j], o))

\* A step has grown a room from the placement it yielded: a placement on the
\* stack is aligned with one of that placement's exits.
C12_Witness ==
    \E i \in DOMAIN gen :
        /\ last[i] # <<>>
        /\ \E k \in 1..Len(gen[i].room_stack) :
             \E d \in {North, East, South, West} :
               \E e \in Exits(last[i][1].room, d) :
                 \E o \in Exits(gen[i].room_stack[k].room, Opposite(d)) :
                   Aligned(last[i][1], d, e, gen[i].room_stack[k].room, o,
                           gen[i].room_stack[k].pos)

---------------------------------------------------------------------------
(* C13: each call of next on a non-empty stack yields exactly the          *)
(* placement on top of the stack, whether or not the call accepts a        *)
(* candidate; what was pending below it stays below, in order, and the     *)
(* placements the call accepts lie on top of that, so they are yielded     *)
(* before anything that was already pending.                               *)

\* The elements of a sequence.
Range(seq) == {seq[k] : k \in 1..Len(seq)}

\* q is aligned with some exit of curr through one of its doorways.
AttachedTo(curr, q) ==
    \E d \in {North, East, South, West} :
        \E e \in Exits(curr.room, d) :
            \E o \in Exits(q.room, Opposite(d)) :
                Aligned(curr, d, e, q.room, o, q.pos)

\* C13: a call of next on generator i with n >= 1 pending placements yields
\* the n-th, leaves the first n - 1 where they were, and everything above
\* them afterwards is new: neither pending nor yielded before the call.
C13_DepthFirst ==
    [][\A i \in DOMAIN gen :
         (calls'[i] # calls[i] /\ gen[i].room_stack # <<>>) =>
             LET before == gen[i].room_stack
                 after  == gen'[i].room_stack
                 n      == Len(before)
             IN  /\ last'[i] = <<before[n]>>
                 /\ yielded'[i] = Append(yielded[i], before[n])
                 /\ Len(after) >= n - 1
                 /\ SubSeq(after, 1, n - 1) = SubSeq(before, 1, n - 1)
                 /\ \A k \in n..Len(after) :
                      /\ after[k] \notin Range(before) \cup Range(yielded[i])
                      /\ AttachedTo(before[n], after[k])]_vars

\* A call has yielded a placement and accepted nothing (no pending placement
\* is attached to the one it yielded) while other placements stay pending.
C13_Witness ==
    \E i \in DOMAIN gen :
        /\ last[i] # <<>>
        /\ Len(yielded[i]) >= 2
        /\ gen[i].room_stack # <<>>
        /\ \A q \in Range(gen[i].room_stack) : ~AttachedTo(last[i][1], q)

---------------------------------------------------------------------------
(* C14: at most one room is attached per exit.  Within one call of next    *)
(* the placements pushed are as many as the rectangles inserted, at most   *)
(* one of them is attached to any one exit of curr, and so they are at     *)
(* most as many as curr has doorway offsets on its four sides.             *)

\* The exits of room: (side, offset) pairs.
AllExits(room) ==
    UNION {{<<d, e>> : e \in Exits(room, d)} : d \in {North, East, South, West}}

\* q is aligned with exit x of curr through one of its doorways.
AttachedAt(curr, x, q) ==
    \E o \in Exits(q.room, Opposite(x[1])) :
        Aligned(curr, x[1], x[2], q.room, o, q.pos)

\* C14: in a call of next that grows from curr, the placements pushed are
\* as many as the rectangles the index gains; no exit of curr has two of them
\* attached; each is attached to an exit; they are no more than the exits
\* that have one attached, hence no more than the exits of curr.
C14_OnePerExit ==
    [][\A i \in DOMAIN gen :
         (calls'[i] # calls[i] /\ gen[i].room_stack # <<>>) =>
             LET before == gen[i].room_stack
                 after  == gen'[i].room_stack
                 n      == Len(before)
                 curr   == before[n]
                 pushed == n..Len(after)
                 served == {x \in AllExits(curr.room) :
                              \E k \in pushed : AttachedAt(curr, x, after[k])}
             IN  /\ Cardinality(TreeEntries(gen'[i].prev_placed))
                       = Cardinality(TreeEntries(gen[i].prev_placed))
                           + Cardinality(pushed)
                 /\ \A x \in AllExits(curr.room) :
                      Cardinality({k \in pushed : AttachedAt(curr, x, after[k])}) <= 1
                 /\ \A k \in pushed : \E x \in AllExits(curr.room) :
                      AttachedAt(curr, x, after[k])
                 /\ Cardinality(pushed) <= Cardinality(served)
                 /\ Cardinality(served) <= Cardinality(AllExits(curr.room))]_vars

\* A call has attached a room to one exit of the placement it yielded and
\* none to another.
C14_Witness ==
    \E i \in DOMAIN gen :
        /\ last[i] # <<>>
        /\ \E x, y \in AllExits(last[i][1].room) :
             /\ \E q \in Range(gen[i].room_stack) : AttachedAt(last[i][1], x, q)
             /\ \A q \in Range(gen[i].room_stack) : ~AttachedAt(last[i][1], y, q)

---------------------------------------------------------------------------
(* C15: for each exit, the (template, opposite-side doorway) pair accepted *)
(* is the first, in shuffled catalog order and then the template's stored  *)
(* doorway order, that passes the acceptance test against the index as it  *)
(* stands at that moment; sides and exits are all processed, in their      *)
(* shuffled order.                                                         *)

RECURSIVE ExitSchedule(_, _, _, _, _)
\* The exits of one side from the n-th on, each as <<side, exit, catalog
\* order>>: the catalog order is reshuffled for each exit.  The shuffles draw
\* from the randomness source whatever is accepted, so the schedule of a call
\* is fixed by the source alone.
ExitSchedule(d, exits, indices, rng, n) ==
    IF n > Len(exits) THEN [items |-> <<>>, indices |-> indices, rng |-> rng]
    ELSE LET sh   == shuffle(indices, rng)
             rest == ExitSchedule(d, exits, sh.seq, sh.rng, n + 1)
         IN  [items |-> <<<<d, exits[n], sh.seq>>>> \o rest.items,
              indices |-> rest.indices, rng |-> rest.rng]

RECURSIVE SideSchedule(_, _, _, _, _)
\* The schedule of the sides from the c-th on.
SideSchedule(curr, sides, indices, rng, c) ==
    IF c > Len(sides) THEN [items |-> <<>>, rng |-> rng]
    ELSE LET sh   == shuffle(curr.room.entrances[sides[c] + 1], rng)
             here == ExitSchedule(sides[c], sh.seq, indices, sh.rng, 1)
             rest == SideSchedule(curr, sides, here.indices, here.rng, c + 1)
         IN  [items |-> here.items \o rest.items, rng |-> rest.rng]

\* The schedule of a call that grows from curr with the source at rng.
Schedule(curr, rng) ==
    LET sh == shuffle(<<North, East, South, West>>, rng)
    IN  SideSchedule(curr, sh.seq, [j \in 1..Len(AVAILABLE_ROOMS) |-> j - 1], sh.rng, 1)

\* The pairs <<position in the catalog order, position in the doorway list>>
\* of one scheduled exit.
Pairs(item) ==
    UNION {{<<j, k>> : k \in 1..Len(AVAILABLE_ROOMS[item[3][j] + 1]
                                       .entrances[Opposite(item[1]) + 1])}
           : j \in 1..Len(item[3])}

\* p comes before q in the iteration order.
ComesBefore(p, q) == p[1] < q[1] \/ (p[1] = q[1] /\ p[2] < q[2])

\* The placement pair p of a scheduled exit stands for.
PairPlacement(curr, item, p) ==
    LET room == AVAILABLE_ROOMS[item[3][p[1]] + 1]
        o    == room.entrances[Opposite(item[1]) + 1][p[2]]
    IN  Room_place(room, attempt_pos(curr, item[1], item[2], room, o))

\* The pairs that pass the acceptance test against self.
Passing(self, curr, item) ==
    {p \in Pairs(item) : accepts(self, PlacementRect(PairPlacement(curr, item, p)))}

\* self after the first passing pair, if there is one, is accepted.
FirstFit(self, curr, item) ==
    LET fit == Passing(self, curr, item)
    IN  IF fit = {} THEN self
        ELSE LET p == CHOOSE p \in fit : \A q \in fit : q = p \/ ComesBefore(p, q)
                 place == PairPlacement(curr, item, p)
             IN  accept(self, PlacementRect(place), place)

RECURSIVE FoldFirstFit(_, _, _, _)
\* FirstFit over the schedule from its n-th item on.
FoldFirstFit(self, curr, items, n) ==
    IF n > Len(items) THEN self
    ELSE LET t == FirstFit(self, curr, items[n])
         IN  Eager(t, FoldFirstFit(t, curr, items, n + 1))

\* C15: a call of next that grows from curr leaves the index and the stack
\* that accepting, exit by exit through the whole schedule, the first pair
\* that passes against the index of that moment leaves.
C15_FirstAcceptance ==
    [][\A i \in DOMAIN gen :
         (calls'[i] # calls[i] /\ gen[i].room_stack # <<>>) =>
             LET curr  == stack_top(gen[i].room_stack)
                 sched == Schedule(curr, gen[i].rng)
                 ref   == FoldFirstFit(Popped(i), curr, sched.items, 1)
             IN  /\ Len(sched.items) = Cardinality(AllExits(curr.room))
                 /\ gen'[i].room_stack = ref.room_stack
                 /\ gen'[i].prev_placed = ref.prev_placed
                 /\ gen'[i].rng = sched.rng]_vars

\* The first call has accepted a pair that is not the first of its exit: a
\* room it pushed is attached to the start room only through doorways that
\* are not the first of their list.
C15_Witness ==
    \E i \in DOMAIN gen :
        /\ Len(yielded[i]) = 1 /\ last[i] # <<>>
        /\ \E q \in Range(gen[i].room_stack) :
             /\ AttachedTo(last[i][1], q)
             /\ \A x \in AllExits(last[i][1].room) :
                  \A o \in Exits(q.room, Opposite(x[1])) :
                      Aligned(last[i][1], x[1], x[2], q.room, o, q.pos)
                          => o # q.room.entrances[Opposite(x[1]) + 1][1]

---------------------------------------------------------------------------
(* C16: after any sequence of add_rect calls, for every node at depth k    *)
(* every rectangle stored in its left subtree is is_dim_less than the      *)
(* node's rectangle in dimension k mod 4 and every rectangle stored in     *)
(* its right subtree is not.                                               *)

\* Path p is a proper prefix of path q.
ProperPrefix(p, q) == Len(p) < Len(q) /\ SubSeq(q, 1, Len(p)) = p

\* C16: for every node n of the tree and every node d below it, d lies in
\* n's left subtree exactly if d's rectangle is is_dim_less than n's in the
\* dimension of n's depth.
C16_Branching ==
    \A n, d \in TreeEntries(tree) :
        ProperPrefix(n[1], d[1]) =>
            ((d[1][Len(n[1]) + 1] = 0) <=> is_dim_less(d[2], n[2], Len(n[1]) % 4))

\* A tree with a node two levels down or more, reached by a left and a right
\* turn.
C16_Witness ==
    \E e \in TreeEntries(tree) :
        Len(e[1]) >= 2 /\ 0 \in Range(e[1]) /\ 1 \in Range(e[1])

---------------------------------------------------------------------------
(* C17: for each dim in 0..3, is_dim_less(., ., dim) is a strict total     *)
(* order on integer rectangles: it compares the dim-th coordinate of       *)
(* (min.x, min.y, max.x, max.y), on a tie compares that tuple              *)
(* lexicographically, is false for identical rectangles, and for two       *)
(* distinct rectangles holds exactly one way round.                        *)

\* The coordinates of r in the order of the claim.
Coords(r) == <<r.min[1], r.min[2], r.max[1], r.max[2]>>

\* The dim-th coordinate followed by all four.
OrderKey(r, dim) == <<Coords(r)[dim + 1]>> \o Coords(r)

\* Tuple a is lexicographically below tuple b of the same length.
TupleLess(a, b) ==
    \E k \in 1..Len(a) : a[k] < b[k] /\ \A m \in 1..(k - 1) : a[m] = b[m]

\* Third rectangles for transitivity: the corners of the grid of
\* RectUniverse and the rectangles of tests::rect_overlap.
Thirds ==
    {Rect(a, b, c, d) : a, b, c, d \in {0, RectMax}}
      \cup {Rect(0, 0, 10, 10), Rect(10, 10, 20, 20), Rect(5, 5, 10, 10)}

\* C17: what is_dim_less returned for ra and rb in dimension dim is the
\* lexicographic comparison of their keys; it is false of ra with itself;
\* it holds exactly one way round if ra and rb differ; and with any third
\* rectangle, in any of the three positions, it is transitive.
C17_StrictTotalOrder ==
    less # <<>> =>
        LET dim == less[1].dim
        IN  /\ less[1].ab <=> TupleLess(OrderKey(ra, dim), OrderKey(rb, dim))
            /\ less[1].ba <=> TupleLess(OrderKey(rb, dim), OrderKey(ra, dim))
            /\ ~less[1].aa
            /\ ra = rb => (~less[1].ab /\ ~less[1].ba)
            /\ ra # rb => (less[1].ab <=> ~less[1].ba)
            /\ \A rc \in Thirds :
                 /\ (less[1].ab /\ is_dim_less(rb, rc, dim)) => is_dim_less(ra, rc, dim)
                 /\ (is_dim_less(rc, ra, dim) /\ less[1].ab) => is_dim_less(rc, rb, dim)
                 /\ (is_dim_less(ra, rc, dim) /\ is_dim_less(rc, rb, dim)) => less[1].ab

\* Two distinct rectangles that tie in the dimension compared, ordered by
\* the lexicographic fall back.
C17_Witness ==
    /\ less # <<>>
    /\ ra # rb
    /\ Coords(ra)[less[1].dim + 1] = Coords(rb)[less[1].dim + 1]
    /\ less[1].ab

---------------------------------------------------------------------------
(* C18: for every rectangular template grid, the North list is exactly     *)
(* the ascending column indices of the Empty tiles of the first row, South *)
(* those of the last row, West the ascending row indices whose first tile  *)
(* is Empty, East those whose last tile is Empty; the lists are computed   *)
(* in Room::new and every placement made from the template carries them.   *)

\* seq lists exactly the members of set, in ascending order.
AscendingListOf(seq, set) ==
    /\ Range(seq) = set
    /\ \A a, b \in 1..Len(seq) : a < b => seq[a] < seq[b]

\* The column indices of the Empty tiles of row r (from 1) of lay.
EmptyColumns(lay, r) == {c \in 0..(Len(lay[r]) - 1) : lay[r][c + 1] = E}

\* The row indices of lay whose tile in column c (from 1) is Empty.
EmptyRows(lay, c) == {r \in 0..(Len(lay) - 1) : lay[r + 1][c] = E}

\* lists are the doorway lists of the rectangular grid lay.
DoorwaysOf(lists, lay) ==
    /\ Len(lists) = 4
    /\ AscendingListOf(lists[North + 1], EmptyColumns(lay, 1))
    /\ AscendingListOf(lists[South + 1], EmptyColumns(lay, Len(lay)))
    /\ AscendingListOf(lists[West + 1], EmptyRows(lay, 1))
    /\ AscendingListOf(lists[East + 1], EmptyRows(lay, Len(lay[1])))

\* Anchors a template is placed at.
Anchors == {<<0, 0>>, <<-3, 7>>}

\* C18: Room::new on a rectangular grid returns a room whose lists are the
\* doorway lists of the grid, a placement of the room carries the same
\* lists, and so do the rooms of the catalog.
C18_DoorwayOffsets ==
    /\ (built # <<>> /\ ~Malformed(layout)) =>
          /\ built[1].kind = "Room"
          /\ DoorwaysOf(built[1].room.entrances, layout)
          /\ \A pos \in Anchors :
                Room_place(built[1].room, pos).room.entrances
                    = built[1].room.entrances
    /\ \A j \in 1..Len(ROOM_LAYOUTS) :
          DoorwaysOf(AVAILABLE_ROOMS[j].entrances, ROOM_LAYOUTS[j])

\* A room built from a grid of more than one row and column whose four
\* lists differ from side to side.
C18_Witness ==
    /\ built # <<>> /\ ~Malformed(layout)
    /\ Len(layout) >= 2 /\ Len(layout[1]) >= 2
    /\ built[1].kind = "Room"
    /\ built[1].room.entrances[North + 1] # built[1].room.entrances[South + 1]
    /\ built[1].room.entrances[East + 1] # built[1].room.entrances[West + 1]
    /\ Len(built[1].room.entrances[North + 1]) = 2

---------------------------------------------------------------------------
(* C19: for every pair of positive bounds (width, height), bounds below    *)
(* the 10x10 start template included, construction computes the start     *)
(* anchor ((width - 10) / 2, (height - 10) / 2) without unsigned overflow  *)
(* or wrap-around, and the corner (width + 20, height + 20) of the         *)
(* acceptance region is computed without signed overflow.                  *)

\* The first placement of generator i: the one MapGenerator::new pushed.
StartOf(i) == (yielded[i] \o gen[i].room_stack)[1]

\* C19: construction never aborts, the start anchor lies between 0 and the
\* bound on each axis, as a half of a difference that did not wrap does, and
\* the region's corner is the bound plus the margin.
C19_NoOverflow ==
    \A i \in DOMAIN gen :
        /\ ~panicked[i]
        /\ 0 <= StartOf(i).pos[1] /\ StartOf(i).pos[1] <= gen[i].width
        /\ 0 <= StartOf(i).pos[2] /\ StartOf(i).pos[2] <= gen[i].height
        /\ screen(gen[i]).max = <<gen[i].width + 20, gen[i].height + 20>>

---------------------------------------------------------------------------
(* C20: in every reachable generator state the spatial index holds as      *)
(* many rectangles as placements have been yielded plus placements are     *)
(* pending, and exactly the bounding rectangles of those placements;       *)
(* every accepted placement is yielded once, so at exhaustion the yielded  *)
(* count is the index size.                                                *)

\* C20: for every generator, the yielded and the pending placements
\* together are pairwise distinct, with pairwise distinct rectangles, the
\* index has one node for each and stores exactly their rectangles; with an
\* empty stack the index has as many nodes as placements were yielded.
C20_Bookkeeping ==
    \A i \in DOMAIN gen :
        LET all   == yielded[i] \o gen[i].room_stack
            nodes == TreeEntries(gen[i].prev_placed)
        IN  /\ Cardinality(nodes) = Len(yielded[i]) + Len(gen[i].room_stack)
            /\ TreeRects(gen[i].prev_placed) = {PlacementRect(all[k]) : k \in 1..Len(all)}
            /\ \A a, b \in 1..Len(all) :
                 a # b => (all[a] # all[b] /\ PlacementRect(all[a]) # PlacementRect(all[b]))
            /\ gen[i].room_stack = <<>> => Cardinality(nodes) = Len(yielded[i])

\* A generator that is exhausted after yielding the start room and rooms
\* grown from it.
C20_Witness ==
    \E i \in DOMAIN gen :
        ended[i] >= 1 /\ Len(yielded[i]) >= 3 /\ gen[i].room_stack = <<>>

---------------------------------------------------------------------------
(* C21: the bounds test applied is Rect::overlaps against the screen       *)
(* rectangle, so every rectangle accepted by frontier growth shares        *)
(* positive area with [(0, 0), (width + 20, height + 20)]: min.x <         *)
(* width + 20, max.x > 0, min.y < height + 20, max.y > 0, in every         *)
(* reachable state; none lies entirely outside the region.                 *)

\* The larger and the smaller of two integers.
Max2(a, b) == IF a >= b THEN a ELSE b
Min2(a, b) == IF a <= b THEN a ELSE b

\* C21: for every placement a generator has accepted, the four strict
\* inequalities of the claim hold of its rectangle, the intersection of the
\* rectangle with the region has positive extent on both axes, and the
\* rectangle is on no side of the region.
C21_AcceptedMeetRegion ==
    \A i \in DOMAIN gen :
        \A k \in 1..Len(Accepted(i)) :
            LET r == PlacementRect(Accepted(i)[k])
                w == gen[i].width + 20
                h == gen[i].height + 20
            IN  /\ r.min[1] < w /\ r.max[1] > 0
                /\ r.min[2] < h /\ r.max[2] > 0
                /\ Min2(r.max[1], w) - Max2(r.min[1], 0) > 0
                /\ Min2(r.max[2], h) - Max2(r.min[2], 0) > 0
                /\ ~(r.max[1] <= 0 \/ r.min[1] >= w \/ r.max[2] <= 0 \/ r.min[2] >= h)

\* A generator has accepted a room that lies wholly in the margin, beyond
\* its width or height, and has yielded it.
C21_Witness ==
    \E i \in DOMAIN gen :
        \E k \in 1..Len(Accepted(i)) :
            /\ k + 1 <= Len(yielded[i])
            /\ \/ PlacementRect(Accepted(i)[k]).min[1] >= gen[i].width
               \/ PlacementRect(Accepted(i)[k]).min[2] >= gen[i].height

---------------------------------------------------------------------------
(* C22: the tree query agrees with a plain set of rectangles even when     *)
(* the caller inserts overlapping or duplicate rectangles: for every       *)
(* sequence of add_rect calls with rectangles with min <= max,             *)
(* KDTree::overlaps(q) equals the brute-force scan over the inserted set.  *)

\* The scan over the set of rectangles inserted so far.
BruteForce(q) == \E s \in Range(inserted) : Rect_overlaps(s, q)

\* Queries beside the recorded ones: a rectangle under the far corner, one
\* left of everything, one inside several and one across the top.
Probes ==
    {Rect(12, 12, 14, 14), Rect(-5, 0, 0, 30), Rect(26, 16, 29, 29),
     Rect(0, 30, 30, 35), Rect(21, 0, 29, 5)}

\* C22: whatever was inserted, the tree answers the recorded query as the
\* scan over the inserted set does, and so it answers every query of the
\* caller, every probe and every insertable rectangle.  (Each tree is met
\* with no query recorded, right after its last add_rect; the queries are
\* tried on it there.)
C22_QueryMatchesBruteForce ==
    /\ query # <<>> => (qres <=> BruteForce(query[1]))
    /\ query = <<>> =>
          \A q \in AnyQueries \cup Probes \cup AnyRects :
              KDTree_overlaps(tree, q) <=> BruteForce(q)

\* A full tree holding a rectangle twice and two that overlap, whose query
\* was answered with true by a rectangle other than the root's.
C22_Witness ==
    /\ Len(inserted) = MaxRects
    /\ Cardinality(Range(inserted)) < Len(inserted)
    /\ \E a, b \in 1..Len(inserted) :
          inserted[a] # inserted[b] /\ Rect_overlaps(inserted[a], inserted[b])
    /\ query # <<>> /\ qres
    /\ ~Rect_overlaps(inserted[1], query[1])

=============================================================================
